---- MODULE Spec2Model ----
(***************************************************************************)
(* YouTube -> MP3 converter (src/app.py): the two request handlers,        *)
(*   POST /api/convert          convert                                    *)
(*   POST /api/convert/stream   convert_stream / event_generator           *)
(* and the invoker run_yt_dlp_stream they share, as one state machine.     *)
(* One behaviour is one request.  The external tool (yt-dlp) and the tag   *)
(* library (mutagen) are the environment: what they do for a URL is a      *)
(* record drawn from ToolRuns when the loop reaches the URL (tool[i] in    *)
(* convert, proc.run in the streaming endpoint).                           *)
(* Text (URLs, output lines, error output) is a sequence of one-character  *)
(* strings, so that lower-casing, substring search, stripping and slicing  *)
(* are computed as the code computes them.                                 *)
(***************************************************************************)
EXTENDS Naturals, Sequences, FiniteSets

VARIABLES
    endpoint,   \* "none" | "convert" | "stream": the handler serving the request
    urls,       \* payload.urls
    tool,       \* convert: tool[k] is what yt-dlp and mutagen do for the k-th URL
                \* (environment), for the URLs the dispatch loop has reached
    pc,         \* position of the handler / of the event generator
                \* ("crashed": an exception left it; "waiting": it is in a
                \* proc.wait() that does not return)
    i,          \* 1-based index of the URL the dispatch loop / generator is at
    results,    \* convert: the list `results`
    response,   \* the HTTP response, NoResponse until the handler answers
    dirs,       \* the directories mkdtemp created, in creation order: their files
    spawned,    \* the positions i for which create_subprocess_exec ran, in order
    proc,       \* the external process of the current invocation
    events,     \* stream: what the event generator has yielded, in order
    evpos,      \* evpos[k]: the loop position at which events[k] was yielded (0: after the loop)
    embedded    \* the positions i for which embed_metadata was called, in order

vars == <<endpoint, urls, tool, pc, i, results, response, dirs, spawned, proc,
          events, evpos, embedded>>

(***************************************************************************)
(* Bounds and program constants                                            *)
(***************************************************************************)
\* Longest batch whose URLs and tool behaviour are drawn freely.
MaxLen == 3

\* convert: `if len(urls) > 10`
MaxUrls == 10

\* run_yt_dlp_stream: `err[:300]`
ErrLimit == 300

\* create_subprocess_exec: the default `limit` (2 ** 16) of the StreamReaders
\* of proc.stdout and proc.stderr
StreamLimit == 65536

\* A pipe of the operating system (Linux): 16 pages of 4096 bytes
PipePages == 16
PageSize == 4096

\* The most a pipe holds: every page full
PipeSize == PipePages * PageSize

\* The least a pipe holds when it takes no more: a write goes to a new page
\* when it does not fit in the last one, so pages written in turn with 1 and
\* with PageSize bytes are all in use
LeastFullPipe == (PipePages \div 2) * (PageSize + 1)

\* What the standard error of the process holds while nobody reads
\* proc.stderr.  The StreamReader takes what the pipe holds until its buffer
\* exceeds 2 * limit, then pauses reading, and the pipe fills once more.
\* At most: the buffer paused a full pipe beyond 2 * limit, and a pipe with
\* every page full.
ErrPipeCapacity == (2 * StreamLimit + PipeSize) + PipeSize

\* At least: the buffer paused one byte beyond 2 * limit, and a full pipe
\* that holds the least.
ErrLeastCapacity == (2 * StreamLimit + 1) + LeastFullPipe

(***************************************************************************)
(* Text                                                                    *)
(***************************************************************************)
Min(a, b) == IF a <= b THEN a ELSE b

\* The characters of the model are those below U+0100.  The ones str.lower()
\* changes, each with what it becomes: A-Z and the capitals of Latin-1.
UpperLowerPairs ==
    {<<"A", "a">>, <<"B", "b">>, <<"C", "c">>, <<"D", "d">>, <<"E", "e">>, <<"F", "f">>,
     <<"G", "g">>, <<"H", "h">>, <<"I", "i">>, <<"J", "j">>, <<"K", "k">>, <<"L", "l">>,
     <<"M", "m">>, <<"N", "n">>, <<"O", "o">>, <<"P", "p">>, <<"Q", "q">>, <<"R", "r">>,
     <<"S", "s">>, <<"T", "t">>, <<"U", "u">>, <<"V", "v">>, <<"W", "w">>, <<"X", "x">>,
     <<"Y", "y">>, <<"Z", "z">>,
     <<"À", "à">>, <<"Á", "á">>, <<"Â", "â">>, <<"Ã", "ã">>, <<"Ä", "ä">>, <<"Å", "å">>,
     <<"Æ", "æ">>, <<"Ç", "ç">>, <<"È", "è">>, <<"É", "é">>, <<"Ê", "ê">>, <<"Ë", "ë">>,
     <<"Ì", "ì">>, <<"Í", "í">>, <<"Î", "î">>, <<"Ï", "ï">>, <<"Ð", "ð">>, <<"Ñ", "ñ">>,
     <<"Ò", "ò">>, <<"Ó", "ó">>, <<"Ô", "ô">>, <<"Õ", "õ">>, <<"Ö", "ö">>, <<"Ø", "ø">>,
     <<"Ù", "ù">>, <<"Ú", "ú">>, <<"Û", "û">>, <<"Ü", "ü">>, <<"Ý", "ý">>, <<"Þ", "þ">>}

UpperToLower ==
    [c \in {p[1] : p \in UpperLowerPairs} |->
        (CHOOSE p \in UpperLowerPairs : p[1] = c)[2]]

\* str.lower(), one character
LowerChar(c) == IF c \in DOMAIN UpperToLower THEN UpperToLower[c] ELSE c

\* str.lower()
Lower(s) == [k \in 1..Len(s) |-> LowerChar(s[k])]

\* The characters U+0080 to U+00FF: two bytes each in UTF-8, the others one
NonAscii ==
    {"", "", "", "", "", "", "", "", "", "", "", "", "", "", "", "",
     "", "", "", "", "", "", "", "", "", "", "", "", "", "", "", "",
     " ", "¡", "¢", "£", "¤", "¥", "¦", "§", "¨", "©", "ª", "«", "¬", "­", "®", "¯",
     "°", "±", "²", "³", "´", "µ", "¶", "·", "¸", "¹", "º", "»", "¼", "½", "¾", "¿",
     "À", "Á", "Â", "Ã", "Ä", "Å", "Æ", "Ç", "È", "É", "Ê", "Ë", "Ì", "Í", "Î", "Ï",
     "Ð", "Ñ", "Ò", "Ó", "Ô", "Õ", "Ö", "×", "Ø", "Ù", "Ú", "Û", "Ü", "Ý", "Þ", "ß",
     "à", "á", "â", "ã", "ä", "å", "æ", "ç", "è", "é", "ê", "ë", "ì", "í", "î", "ï",
     "ð", "ñ", "ò", "ó", "ô", "õ", "ö", "÷", "ø", "ù", "ú", "û", "ü", "ý", "þ", "ÿ"}

\* len(s.encode("utf-8"))
ByteLen(s) == Len(s) + Cardinality({k \in 1..Len(s) : s[k] \in NonAscii})

\* `sub in s`
Contains(sub, s) ==
    \E k \in 0..(Len(s) - Len(sub)) : SubSeq(s, k + 1, k + Len(sub)) = sub

\* s[:n]
Prefix(s, n) == SubSeq(s, 1, Min(Len(s), n))

\* The characters below U+0100 that str.strip() removes (str.isspace): space,
\* \t \n \r \f, and \x0b, \x1c-\x1f, \x85, \xa0
Whitespace ==
    {" ", "\n", "\t", "\r", "\f",
     "", "", "", "", "", "", " "}

RECURSIVE LStrip(_)
LStrip(s) == IF s # <<>> /\ Head(s) \in Whitespace THEN LStrip(Tail(s)) ELSE s

RECURSIVE RStrip(_)
RStrip(s) ==
    IF s # <<>> /\ s[Len(s)] \in Whitespace
    THEN RStrip(SubSeq(s, 1, Len(s) - 1)) ELSE s

\* str.strip()
Strip(s) == RStrip(LStrip(s))

YoutubeCom == <<"y", "o", "u", "t", "u", "b", "e", ".", "c", "o", "m">>
YoutuBe == <<"y", "o", "u", "t", "u", ".", "b", "e">>

is_allowed_url(u) == Contains(YoutubeCom, Lower(u)) \/ Contains(YoutuBe, Lower(u))

(***************************************************************************)
(* Inputs: the request body                                                *)
(***************************************************************************)
\* "youtu.be/a"
UrlShort == <<"y", "o", "u", "t", "u", ".", "b", "e", "/", "a">>
\* "YOUTUBE.COM/b"
UrlUpper == <<"Y", "O", "U", "T", "U", "B", "E", ".", "C", "O", "M", "/", "b">>
\* "vimeo.com/c"
UrlOther == <<"v", "i", "m", "e", "o", ".", "c", "o", "m", "/", "c">>

Urls == {UrlShort, UrlUpper, UrlOther}

SeqsUpTo(S, n) == UNION {[1..k -> S] : k \in 0..n}

\* Every batch of at most MaxLen URLs, and the batches of one repeated URL
\* that sit on either side of the limit of convert.
Batches ==
    SeqsUpTo(Urls, MaxLen)
        \cup {[k \in 1..n |-> UrlShort] : n \in {MaxUrls, MaxUrls + 1}}

(***************************************************************************)
(* Files and directories                                                   *)
(***************************************************************************)
Mp3 == <<".", "m", "p", "3">>
Json == <<".", "j", "s", "o", "n">>
Jpg == <<".", "j", "p", "g">>
Jpeg == <<".", "j", "p", "e", "g">>
Webp == <<".", "w", "e", "b", "p">>

\* A file of a directory: Path.stem and Path.suffix.  The output template is
\* "%(title).200s [%(id)s].%(ext)s": the stem is a function of the video,
\* here the URL itself.
File(u, sfx) == [stem |-> u, suffix |-> sfx]

\* Path.name
Name(f) == f.stem \o f.suffix

\* None, where the code holds a path or None
NoFile == [stem |-> <<>>, suffix |-> <<>>]

\* What one iteration order of a directory leaves in a variable that the scan
\* assigns on every match: any of the matches, None when there is none.
LastMatch(S) == IF S = {} THEN {NoFile} ELSE S

\* run_yt_dlp_stream: the scan of outdir, by lower-cased suffix
ScanDir(dir) ==
    {[mp3 |-> a, info |-> b, thumb |-> c] :
        a \in LastMatch({f \in dir : Lower(f.suffix) = Mp3}),
        b \in LastMatch({f \in dir : Lower(f.suffix) # Mp3 /\ Lower(f.suffix) = Json}),
        c \in LastMatch({f \in dir : Lower(f.suffix) \notin {Mp3, Json}
                                     /\ Lower(f.suffix) \in {Jpg, Jpeg, Webp}})}

\* s.endswith(t)
EndsWith(s, t) == Len(s) >= Len(t) /\ SubSeq(s, Len(s) - Len(t) + 1, Len(s)) = t

\* job_dir.glob("*.mp3"): the files whose name ends in ".mp3"
GlobMp3(dir) == {f \in dir : EndsWith(Name(f), Mp3)}

\* "resultados.zip"
ZipStem == <<"r", "e", "s", "u", "l", "t", "a", "d", "o", "s">>
ZipSuffix == <<".", "z", "i", "p">>

(***************************************************************************)
(* The environment: one run of the external tool and of the tag library    *)
(***************************************************************************)
\* rc:    the exit status of yt-dlp
\* out:   the lines it writes to its standard output, each ending in "\n"
\* err:   what it writes to its standard error, up to the first
\*        ErrLimit + 1 characters of it
\* errlen: how many bytes it writes to its standard error in all
\* files: the suffixes of the files it leaves in the output directory
\* fail:  the step of metadata embedding that fails, if it is reached:
\*        "sidecar" json.load of the info file, "tags" EasyID3 open or save,
\*        "thumb" reading the image file, "cover" the ID3 calls that attach it
ToolRun(rc, out, err, files, fail) ==
    [rc |-> rc, out |-> out, err |-> err, errlen |-> ByteLen(err), files |-> files,
     fail |-> fail]

Line50 == <<"5", "0", "%", " ", "\n">>
LineBlank == <<" ", "\n">>
Line100 == <<"1", "0", "0", "%", "\n">>
Lines == <<Line50, LineBlank, Line100>>
\* A line two bytes longer than the limit of proc.stdout, and its "\n"
LineLong ==
    [k \in 1..(StreamLimit \div 2 + 2) |->
        IF k <= StreamLimit \div 2 + 1 THEN "é" ELSE "\n"]

ErrShort == <<"E", "R", "R", "O", "R", ":", " ", "x">>
ErrFull == [k \in 1..ErrLimit |-> "e"]
ErrLong == [k \in 1..(ErrLimit + 1) |-> IF k <= ErrLimit THEN "e" ELSE "!"]
\* A run that fails with more error output than the buffer of proc.stderr
\* takes before it pauses reading
ErrPausedRun ==
    [ToolRun(1, Lines, ErrLong, {Mp3, Json, Jpg}, "none")
        EXCEPT !.errlen = 2 * StreamLimit + 1]
\* A run with a line of standard output longer than the reader takes, after
\* two lines it takes
LongLineRun == ToolRun(0, <<Line50, Line100, LineLong>>, <<>>, {}, "none")
\* A run that fails with more error output than buffer and pipe hold at least
ErrTightRun ==
    [ToolRun(1, Lines, ErrLong, {Mp3, Json, Jpg}, "none")
        EXCEPT !.errlen = ErrLeastCapacity + 1]
\* A run that fails with more error output than buffer and pipe hold at most
ErrFloodRun ==
    [ToolRun(1, Lines, ErrLong, {}, "none") EXCEPT !.errlen = ErrPipeCapacity + 1]

ToolRuns ==
    {   \* the tool fails
        ToolRun(1, <<>>, ErrShort, {}, "none"),
        ToolRun(1, <<>>, ErrFull, {}, "none"),
        ToolRun(1, Lines, ErrLong, {Mp3, Json, Jpg}, "none"),
        ErrPausedRun,
        ErrTightRun,
        ErrFloodRun,
        \* the tool exits 0 and leaves no audio file
        ToolRun(0, Lines, <<>>, {}, "none"),
        ToolRun(0, <<>>, <<>>, {Json, Jpg}, "none"),
        \* an audio file and no sidecar
        ToolRun(0, <<>>, <<>>, {Mp3}, "none"),
        ToolRun(0, <<>>, <<>>, {Mp3, Jpg}, "none"),
        \* audio file and sidecar
        ToolRun(0, <<>>, <<>>, {Mp3, Json}, "none"),
        ToolRun(0, <<>>, <<>>, {Mp3, Json}, "sidecar"),
        ToolRun(0, <<>>, <<>>, {Mp3, Json}, "tags"),
        \* audio file, sidecar and thumbnail
        ToolRun(0, Lines, <<>>, {Mp3, Json, Jpg}, "none"),
        ToolRun(0, <<>>, <<>>, {Mp3, Json, Jpg}, "none"),
        ToolRun(0, <<>>, <<>>, {Mp3, Json, Jpg}, "cover"),
        ToolRun(0, <<>>, <<>>, {Mp3, Json, Jpg}, "thumb")
    }

\* The runs drawn for the URLs of a batch: any run for a short batch, the
\* run with the over-long line too for a batch of one URL, the plain success
\* for the batches of MaxUrls and more.
ToolChoices(batch) ==
    IF Len(batch) = 1 THEN ToolRuns \cup {LongLineRun}
    ELSE IF Len(batch) <= MaxLen THEN ToolRuns
    ELSE {ToolRun(0, <<>>, <<>>, {Mp3, Json}, "none")}

\* The process of run o cannot finish writing its standard error: stderr is a
\* pipe that run_yt_dlp_stream reads only after proc.wait(), so what exceeds
\* buffer and pipe blocks the write, and the process neither closes its
\* standard output nor exits.
ErrBlocked(o) == o.errlen > ErrPipeCapacity

\* The same may happen, depending on the sizes and the timing of the writes
ErrMayBlock(o) == o.errlen > ErrLeastCapacity

\* The reader of proc.stderr has paused before the end of the error output:
\* nobody resumes it before proc.wait(), which waits for the pipes to close
\* and then may never return.
ErrPaused(o) == o.errlen > 2 * StreamLimit

\* convert never gets as far as starting the process (AsyncioRun below): the
\* runs drawn for its URLs are one of each kind its results could tell apart.
ConvertChoices(batch) ==
    ToolChoices(batch)
        \cap {ToolRun(1, <<>>, ErrShort, {}, "none"),
              ToolRun(1, Lines, ErrLong, {Mp3, Json, Jpg}, "none"),
              ToolRun(0, Lines, <<>>, {}, "none"),
              ToolRun(0, <<>>, <<>>, {Mp3}, "none"),
              ToolRun(0, <<>>, <<>>, {Mp3, Json}, "none"),
              ToolRun(0, <<>>, <<>>, {Mp3, Json}, "tags"),
              ToolRun(0, Lines, <<>>, {Mp3, Json, Jpg}, "none")}

\* The files run o leaves in the output directory for URL u
Produced(u, o) == {File(u, sfx) : sfx \in o.files}

\* The audio file run o produces for URL u, if it produces one
ProducesAudio(o) == o.rc = 0 /\ Mp3 \in o.files

(***************************************************************************)
(* Messages                                                                *)
(***************************************************************************)
\* 'URL no permitida'
MsgNotAllowed == <<"U", "R", "L", " ", "n", "o", " ", "p", "e", "r", "m", "i", "t", "i", "d", "a">>
\* 'No se generó archivo MP3'
MsgNoMp3 == <<"N", "o", " ", "s", "e", " ", "g", "e", "n", "e", "r", "ó", " ", "a", "r", "c", "h", "i", "v", "o", " ", "M", "P", "3">>
\* id() of the async generator object, in hexadecimal: it differs from call
\* to call, and two calls may get the same one
GeneratorAddresses ==
    {<<"7", "f", "0", "1", "d", "2", "b", "a", "2", "f", "8", "0">>,
     <<"7", "f", "0", "1", "d", "2", "b", "a", "3", "0", "4", "0">>}
\* str(e) of the ValueError of asyncio.run: 'a coroutine was expected, got
\* <async_generator object run_yt_dlp_stream at 0x...>'
MsgNotCoroutine(addr) ==
    <<"a", " ", "c", "o", "r", "o", "u", "t", "i", "n", "e", " ", "w", "a", "s", " ", "e", "x", "p", "e", "c", "t", "e", "d", ",", " ", "g", "o", "t", " ">>
    \o <<"<", "a", "s", "y", "n", "c", "_", "g", "e", "n", "e", "r", "a", "t", "o", "r", " ", "o", "b", "j", "e", "c", "t", " ">>
    \o <<"r", "u", "n", "_", "y", "t", "_", "d", "l", "p", "_", "s", "t", "r", "e", "a", "m", " ", "a", "t", " ", "0", "x">>
    \o addr \o <<">">>
\* str(e) of StopIteration
MsgStopIteration == <<>>
\* str(e) of what metadata embedding raises
MsgEmbed == <<"e", "m", "b", "e", "d">>

EvProgress(u, text) == [url |-> u, progress |-> text]
EvError(u, err) == [url |-> u, error |-> err]
EvDone(u, name) == [url |-> u, done |-> name]
EvStatus(u) == [url |-> u, status |-> "finalizado"]
EvEnd == [event |-> "end", data |-> "done"]

IsProgress(e) == "progress" \in DOMAIN e
IsError(e) == "error" \in DOMAIN e
IsDone(e) == "done" \in DOMAIN e
IsStatus(e) == "status" \in DOMAIN e
IsEnd(e) == "event" \in DOMAIN e

(***************************************************************************)
(* The initial state: no request yet                                       *)
(***************************************************************************)
NoResponse == [status |-> 0]
NoProc == [state |-> "none"]

Init ==
    /\ endpoint = "none"
    /\ urls = <<>>
    /\ tool = <<>>
    /\ pc = "idle"
    /\ i = 0
    /\ results = <<>>
    /\ response = NoResponse
    /\ dirs = <<>>
    /\ spawned = <<>>
    /\ proc = NoProc
    /\ events = <<>>
    /\ evpos = <<>>
    /\ embedded = <<>>

(***************************************************************************)
(* POST /api/convert                                                       *)
(***************************************************************************)
\* 'No URLs provided'
DetailNoUrls == <<"N", "o", " ", "U", "R", "L", "s", " ", "p", "r", "o", "v", "i", "d", "e", "d">>
\* 'Máximo 10 URLs por solicitud'
DetailTooMany == <<"M", "á", "x", "i", "m", "o", " ", "1", "0", " ", "U", "R", "L", "s", " ", "p", "o", "r", " ", "s", "o", "l", "i", "c", "i", "t", "u", "d">>
\* 'URL no permitida: ' followed by the URL
DetailNotAllowed(u) == <<"U", "R", "L", " ", "n", "o", " ", "p", "e", "r", "m", "i", "t", "i", "d", "a", ":", " ">> \o u
\* 'No se pudieron convertir los enlaces'
DetailNoneConverted == <<"N", "o", " ", "s", "e", " ", "p", "u", "d", "i", "e", "r", "o", "n", " ", "c", "o", "n", "v", "e", "r", "t", "i", "r", " ", "l", "o", "s", " ", "e", "n", "l", "a", "c", "e", "s">>

HTTPException(status, detail) == [status |-> status, detail |-> detail]

\* The first URL of the list that fails is_allowed_url
FirstRejected(us) ==
    LET k == CHOOSE k \in 1..Len(us) :
                 /\ ~is_allowed_url(us[k])
                 /\ \A j \in 1..(k - 1) : is_allowed_url(us[j])
    IN us[k]

\* ValidateBatch with the allow-list check applied to the first URL only.
ValidateBatchFirstOnly(us) ==
    IF us = <<>> THEN HTTPException(400, DetailNoUrls)
    ELSE IF Len(us) > MaxUrls THEN HTTPException(400, DetailTooMany)
    ELSE IF ~is_allowed_url(us[1])
         THEN HTTPException(400, DetailNotAllowed(us[1]))
    ELSE NoResponse

\* convert, the checks before the dispatch loop: the exception raised, or
\* NoResponse when the list passes
ValidateBatch(us) ==
    IF us = <<>> THEN HTTPException(400, DetailNoUrls)
    ELSE IF Len(us) > MaxUrls THEN HTTPException(400, DetailTooMany)
    ELSE IF \E k \in 1..Len(us) : ~is_allowed_url(us[k])
         THEN HTTPException(400, DetailNotAllowed(FirstRejected(us)))
    ELSE NoResponse

\* convert up to the dispatch loop: the request arrives, is validated, and the
\* job directory is created
ConvertRequest ==
    /\ pc = "idle"
    /\ \E batch \in Batches :
        /\ endpoint' = "convert"
        /\ urls' = batch
        /\ IF ValidateBatch(batch) # NoResponse
           THEN /\ response' = ValidateBatch(batch)
                /\ pc' = "responded"
                /\ UNCHANGED <<i, dirs>>
           ELSE /\ dirs' = Append(dirs, {})
                /\ i' = 1
                /\ pc' = "dispatch"
                /\ UNCHANGED response
    /\ results' = <<>>
    /\ UNCHANGED <<tool, spawned, proc, events, evpos, embedded>>

(***************************************************************************)
(* run_yt_dlp_stream and embed_metadata                                    *)
(***************************************************************************)
\* embed_metadata in run o with the thumbnail the scan found: "ok" when it
\* returns, "raises" when an exception leaves it.  Only ID3Error, and only
\* around the cover, is caught.
embed_metadata(o, thumb) ==
    IF o.fail = "tags" THEN "raises"
    ELSE IF thumb # NoFile /\ o.fail = "thumb" THEN "raises"
    ELSE "ok"

\* run_yt_dlp_stream after proc.wait() has returned: the exit status, the scan
\* of the directory, the embedding and the completion event.
AfterWait(u, o, dir) ==
    IF o.rc # 0
    THEN {[yield |-> <<EvError(u, Prefix(o.err, ErrLimit))>>, raised |-> FALSE,
           hangs |-> FALSE, scanned |-> FALSE, embed |-> FALSE]}
    ELSE {IF s.mp3 # NoFile /\ s.info # NoFile
          THEN IF o.fail = "sidecar"
               THEN [yield |-> <<>>, raised |-> TRUE, hangs |-> FALSE,
                     scanned |-> TRUE, embed |-> FALSE]
               ELSE IF embed_metadata(o, s.thumb) = "raises"
               THEN [yield |-> <<>>, raised |-> TRUE, hangs |-> FALSE,
                     scanned |-> TRUE, embed |-> TRUE]
               ELSE [yield |-> <<EvDone(u, Name(s.mp3))>>, raised |-> FALSE,
                     hangs |-> FALSE, scanned |-> TRUE, embed |-> TRUE]
          ELSE [yield |-> <<EvError(u, MsgNoMp3)>>, raised |-> FALSE,
                hangs |-> FALSE, scanned |-> TRUE, embed |-> FALSE]
          : s \in ScanDir(dir)}

\* run_yt_dlp_stream after the standard output is exhausted: proc.wait(), the
\* exit status, the scan of the directory, the embedding and the completion
\* event.  yield: the events yielded (none or one); raised: an exception
\* leaves the generator; hangs: proc.wait() never returns; scanned, embed:
\* the scan ran, embed_metadata was called.
Completion(u, o, dir) ==
    AfterWait(u, o, dir)
        \cup IF ErrPaused(o)
             THEN {[yield |-> <<>>, raised |-> FALSE, hangs |-> TRUE,
                    scanned |-> FALSE, embed |-> FALSE]}
             ELSE {}

(***************************************************************************)
(* convert: the dispatch loop and the aggregation                          *)
(***************************************************************************)
\* What calling run_yt_dlp_stream(u, job_dir) returns: the function holds
\* `yield`, so the call runs none of its body and returns an async generator.
RunYtDlpStreamCall == "async_generator"

\* AsyncioRun as if an async generator were driven to its end too.
AsyncioRunDrivesGenerator(main) == "returns"

\* asyncio.run(main): runs a coroutine to its end; for anything else it
\* raises ValueError before running any of it.
AsyncioRun(main) == IF main = "coroutine" THEN "returns" ELSE "ValueError"

\* The entries of `results`
PathResult(f) == [path |-> f]
\* FailureResult with the first URL of the batch in place of u.
FailureResultFirstUrl(e, u) == [error |-> e, url |-> urls[1]]
FailureResult(e, u) == [error |-> e, url |-> u]
IsDict(r) == "error" \in DOMAIN r
IsPath(r) == "path" \in DOMAIN r

\* One iteration of the dispatch loop for URL u with the job directory dir,
\* in run o: the entry appended, the directory afterwards, whether a process
\* was started and whether embed_metadata was called.
ConvertAttempt(u, o, dir) ==
    IF AsyncioRun(RunYtDlpStreamCall) = "ValueError"
    THEN {[result |-> FailureResult(MsgNotCoroutine(addr), u), dir |-> dir,
           spawn |-> FALSE, embed |-> FALSE] : addr \in GeneratorAddresses}
    ELSE IF ErrBlocked(o) THEN {}
    ELSE LET after == dir \cup Produced(u, o)
         IN {[result |-> IF c.raised THEN FailureResult(MsgEmbed, u)
                         ELSE IF g = NoFile THEN FailureResult(MsgStopIteration, u)
                         ELSE PathResult(g),
              dir |-> after, spawn |-> TRUE, embed |-> c.embed]
             : c \in {d \in Completion(u, o, after) : ~d.hangs},
               g \in LastMatch(GlobMp3(after))}

ConvertDispatch ==
    /\ pc = "dispatch"
    /\ i <= Len(urls)
    /\ \E o \in ConvertChoices(urls) :
       \E a \in ConvertAttempt(urls[i], o, dirs[1]) :
        /\ tool' = Append(tool, o)
        /\ results' = Append(results, a.result)
        /\ dirs' = [dirs EXCEPT ![1] = a.dir]
        /\ spawned' = IF a.spawn THEN Append(spawned, i) ELSE spawned
        /\ embedded' = IF a.embed THEN Append(embedded, i) ELSE embedded
    /\ i' = i + 1
    /\ UNCHANGED <<endpoint, urls, pc, response, proc, events, evpos>>

\* "descargas.zip"
ZipDownloadName == <<"d", "e", "s", "c", "a", "r", "g", "a", "s", ".", "z", "i", "p">>
AudioMpeg == "audio/mpeg"
ApplicationZip == "application/zip"

JSONResponse(status, detail, res) ==
    [status |-> status, detail |-> detail, results |-> res]

\* FileResponse(path, filename=, media_type=); entries: the names of the
\* archive's entries when the file served is the archive
FileResponse(path, filename, media_type, entries) ==
    [status |-> 200, path |-> path, filename |-> filename,
     media_type |-> media_type, entries |-> entries]

\* [r for r in results if isinstance(r, Path)]
Successful(res) == SelectSeq(res, IsPath)

\* convert after the dispatch loop
Aggregate(res) ==
    IF \A k \in 1..Len(res) : IsDict(res[k])
    THEN JSONResponse(500, DetailNoneConverted, res)
    ELSE IF Len(Successful(res)) = 1
    THEN FileResponse(Successful(res)[1].path, Name(Successful(res)[1].path),
                      AudioMpeg, <<>>)
    ELSE FileResponse(File(ZipStem, ZipSuffix), ZipDownloadName, ApplicationZip,
                      [k \in 1..Len(Successful(res)) |-> Name(Successful(res)[k].path)])

ConvertAggregate ==
    /\ pc = "dispatch"
    /\ i = Len(urls) + 1
    /\ response' = Aggregate(results)
    /\ dirs' = IF response'.status = 200 /\ response'.media_type = ApplicationZip
               THEN [dirs EXCEPT ![1] = @ \cup {File(ZipStem, ZipSuffix)}]
               ELSE dirs
    /\ pc' = "responded"
    /\ UNCHANGED <<endpoint, urls, tool, i, results, spawned, proc, events, evpos,
                   embedded>>

(***************************************************************************)
(* POST /api/convert/stream                                                *)
(***************************************************************************)
StreamingResponse == [status |-> 200, media_type |-> "text/event-stream"]

\* convert_stream: the request arrives; the only check is the empty list
StreamRequest ==
    /\ pc = "idle"
    /\ \E batch \in Batches :
        /\ endpoint' = "stream"
        /\ urls' = batch
        /\ IF batch = <<>>
           THEN /\ response' = HTTPException(400, DetailNoUrls)
                /\ pc' = "responded"
                /\ UNCHANGED i
           ELSE /\ response' = StreamingResponse
                /\ pc' = "loop"
                /\ i' = 1
    /\ UNCHANGED <<tool, results, dirs, spawned, proc, events, evpos, embedded>>

Yield(evs) ==
    /\ events' = events \o evs
    /\ evpos' = evpos \o [k \in 1..Len(evs) |-> IF pc = "loop" /\ i > Len(urls) THEN 0 ELSE i]

\* event_generator: what it yields for a URL that fails is_allowed_url
RejectEvents(u) == <<EvError(u, MsgNotAllowed)>>

\* The process create_subprocess_exec starts in run o
StartProc(o) ==
    [state |-> "running", run |-> o, todo |-> o.out, pipe |-> <<>>,
     scanned |-> FALSE, embed |-> FALSE]

\* event_generator at the head of its loop, for the next URL: the error event
\* of a URL that is not allowed, or a fresh directory and the start of
\* run_yt_dlp_stream up to the process it creates
GenNextUrl ==
    /\ pc = "loop"
    /\ i <= Len(urls)
    /\ IF ~is_allowed_url(urls[i])
       THEN /\ Yield(RejectEvents(urls[i]))
            /\ i' = i + 1
            /\ UNCHANGED <<pc, dirs, spawned, proc>>
       ELSE /\ dirs' = Append(dirs, {})
            /\ \E o \in ToolChoices(urls) : proc' = StartProc(o)
            /\ spawned' = Append(spawned, i)
            /\ pc' = "relay"
            /\ UNCHANGED <<i, events, evpos>>
    /\ UNCHANGED <<endpoint, urls, tool, results, response, embedded>>

\* The external process writes its next line to its standard output
ProcWrite ==
    /\ proc.state = "running"
    /\ proc.todo # <<>>
    /\ proc' = [proc EXCEPT !.todo = Tail(@), !.pipe = Append(@, Head(proc.todo))]
    /\ UNCHANGED <<endpoint, urls, tool, pc, i, results, response, dirs, spawned,
                   events, evpos, embedded>>

\* The external process blocks in a write to its standard error, with what
\* it has not written to its standard output yet
ProcBlock ==
    /\ proc.state = "running"
    /\ ErrMayBlock(proc.run)
    /\ proc' = [proc EXCEPT !.state = "blocked"]
    /\ UNCHANGED <<endpoint, urls, tool, pc, i, results, response, dirs, spawned,
                   events, evpos, embedded>>

\* The external process exits: its files are in the output directory
ProcExit ==
    /\ proc.state = "running"
    /\ proc.todo = <<>>
    /\ ~ErrBlocked(proc.run)
    /\ proc' = [proc EXCEPT !.state = "exited"]
    /\ dirs' = [dirs EXCEPT ![Len(dirs)] = @ \cup Produced(urls[i], proc.run)]
    /\ UNCHANGED <<endpoint, urls, tool, pc, i, results, response, spawned,
                   events, evpos, embedded>>

\* LineText with the strip forgotten.
LineTextRaw(line) == line

\* line.decode("utf-8", errors="ignore").strip()
LineText(line) == Strip(line)

\* StreamReader.readline: a line with more bytes before the "\n" than the
\* limit is dropped from the buffer and raises ValueError
OverLimit(line) == ByteLen(line) - 1 > StreamLimit

\* run_yt_dlp_stream: one turn of `async for line in proc.stdout`; the
\* ValueError of a line over the limit leaves the generator and ends the
\* response
InvRelay ==
    /\ pc = "relay"
    /\ proc.pipe # <<>>
    /\ proc' = [proc EXCEPT !.pipe = Tail(@)]
    /\ IF OverLimit(Head(proc.pipe))
       THEN /\ pc' = "crashed"
            /\ UNCHANGED <<events, evpos>>
       ELSE /\ Yield(IF LineText(Head(proc.pipe)) # <<>>
                     THEN <<EvProgress(urls[i], LineText(Head(proc.pipe)))>>
                     ELSE <<>>)
            /\ UNCHANGED pc
    /\ UNCHANGED <<endpoint, urls, tool, i, results, response, dirs, spawned,
                   embedded>>

\* run_yt_dlp_stream from the end of the standard output to its completion
\* event, to the exception that leaves it and ends the response, or into a
\* proc.wait() that does not return
InvComplete ==
    /\ pc = "relay"
    /\ proc.pipe = <<>>
    /\ proc.state = "exited"
    /\ \E c \in Completion(urls[i], proc.run, dirs[Len(dirs)]) :
        /\ Yield(c.yield)
        /\ proc' = IF c.hangs THEN proc
                   ELSE [proc EXCEPT !.state = "reaped", !.scanned = c.scanned,
                                     !.embed = c.embed]
        /\ embedded' = IF c.embed THEN Append(embedded, i) ELSE embedded
        /\ pc' = IF c.hangs THEN "waiting"
                 ELSE IF c.raised THEN "crashed" ELSE "finish"
    /\ UNCHANGED <<endpoint, urls, tool, i, results, response, dirs, spawned>>

\* GenFinished without awaiting run_yt_dlp_stream to its end: the loop moves
\* on while the process of this URL may still be running.
GenFinishedWithoutWaiting ==
    /\ pc \in {"finish", "relay"}
    /\ Yield(<<EvStatus(urls[i])>>)
    /\ i' = i + 1
    /\ pc' = "loop"
    /\ proc' = IF pc = "finish" THEN NoProc ELSE proc
    /\ UNCHANGED <<endpoint, urls, tool, results, response, dirs, spawned, embedded>>

\* event_generator after run_yt_dlp_stream is exhausted: the finished marker
GenFinished ==
    /\ pc = "finish"
    /\ Yield(<<EvStatus(urls[i])>>)
    /\ i' = i + 1
    /\ pc' = "loop"
    /\ proc' = NoProc
    /\ UNCHANGED <<endpoint, urls, tool, results, response, dirs, spawned, embedded>>

\* event_generator after its loop: the end-of-stream marker
GenEnd ==
    /\ pc = "loop"
    /\ i = Len(urls) + 1
    /\ Yield(<<EvEnd>>)
    /\ pc' = "closed"
    /\ UNCHANGED <<endpoint, urls, tool, i, results, response, dirs, spawned, proc,
                   embedded>>

(***************************************************************************)
(* The specification                                                       *)
(***************************************************************************)
Next ==
    \/ ConvertRequest
    \/ ConvertDispatch
    \/ ConvertAggregate
    \/ StreamRequest
    \/ GenNextUrl
    \/ ProcWrite
    \/ ProcBlock
    \/ ProcExit
    \/ InvRelay
    \/ InvComplete
    \/ GenFinished
    \/ GenEnd

Spec == Init /\ [][Next]_vars

(***************************************************************************)
(* Properties of convert                                                   *)
(***************************************************************************)
\* A batch that passes the checks of convert
ValidBatch(us) ==
    /\ us # <<>>
    /\ Len(us) <= MaxUrls
    /\ \A k \in 1..Len(us) : is_allowed_url(us[k])

\* The positions of the batch whose run of the tool produces an audio file
AudioPositions == {k \in 1..Len(tool) : ProducesAudio(tool[k])}

ConvertAnswered == endpoint = "convert" /\ pc = "responded"

\* C1: in convert, a batch that is empty, has more than 10 URLs or holds a
\* URL that fails is_allowed_url at any position ends in HTTP 400, with no
\* directory created and no external process started.
C1_InvalidBatchRejected ==
    (endpoint = "convert" /\ ~ValidBatch(urls))
        => /\ pc = "responded"
           /\ response.status = 400
           /\ dirs = <<>>
           /\ spawned = <<>>

\* C1 witness: the only URL that is not allowed is the last of three.
C1_Witness ==
    /\ ConvertAnswered
    /\ Len(urls) = 3
    /\ is_allowed_url(urls[1]) /\ is_allowed_url(urls[2]) /\ ~is_allowed_url(urls[3])
    /\ response.status = 400

\* C2: in convert, a valid batch in which exactly one URL's extraction
\* produces an audio file is answered with the download of that file.
C2_SingleFileDownload ==
    (ConvertAnswered /\ ValidBatch(urls) /\ Cardinality(AudioPositions) = 1)
        => /\ response.status = 200
           /\ response.media_type = AudioMpeg
           /\ \E k \in AudioPositions :
                /\ response.path = File(urls[k], Mp3)
                /\ response.filename = Name(File(urls[k], Mp3))

\* C3: in convert, a valid batch in which two or more URLs' extractions
\* produce an audio file is answered with an archive holding one entry per
\* successful URL, named after that URL's audio file.
C3_ArchiveOfSuccesses ==
    (ConvertAnswered /\ ValidBatch(urls) /\ Cardinality(AudioPositions) >= 2)
        => /\ response.status = 200
           /\ response.media_type = ApplicationZip
           /\ Len(response.entries) = Cardinality(AudioPositions)
           /\ \A k \in AudioPositions :
                \E n \in 1..Len(response.entries) :
                    response.entries[n] = Name(File(urls[k], Mp3))

\* C4: in convert, a valid batch in which no URL produces an audio file is
\* answered with HTTP 500 and one failure record per input URL, the k-th
\* carrying the k-th URL.
C4_AllFailed ==
    (ConvertAnswered /\ ValidBatch(urls) /\ AudioPositions = {})
        => /\ response.status = 500
           /\ Len(response.results) = Len(urls)
           /\ \A k \in 1..Len(urls) :
                /\ IsDict(response.results[k])
                /\ response.results[k].url = urls[k]

\* C4 witness: three URLs, not all the same, none produces an audio file.
C4_Witness ==
    /\ ConvertAnswered
    /\ Len(urls) = 3 /\ urls[1] # urls[2]
    /\ Len(tool) = 3 /\ AudioPositions = {}
    /\ \E k \in 1..3 : tool[k].rc # 0
    /\ \E k \in 1..3 : tool[k].rc = 0
    /\ response.status = 500

\* C5: in convert, a URL whose process exits nonzero or leaves no audio file
\* is recorded, at its own position, as a failure carrying that URL, whatever
\* came before it, and the URLs after it are still processed.
C5_FailureRecordedInPlace ==
    endpoint = "convert"
        => /\ \A k \in 1..Len(tool) :
                ~ProducesAudio(tool[k])
                    => /\ k <= Len(results)
                       /\ IsDict(results[k])
                       /\ results[k].url = urls[k]
           /\ (pc = "responded" /\ ValidBatch(urls)) => Len(results) = Len(urls)

\* C5 witness: the second of three URLs fails after a first whose run
\* produces an audio file, and the third is processed after it.
C5_Witness ==
    /\ ConvertAnswered
    /\ Len(urls) = 3 /\ Len(tool) = 3 /\ urls[1] # urls[2]
    /\ ProducesAudio(tool[1])
    /\ tool[2].rc # 0
    /\ Len(results) = 3
    /\ IsDict(results[2]) /\ results[2].url = urls[2]

(***************************************************************************)
(* Properties of the streaming endpoint                                    *)
(***************************************************************************)
\* The events yielded at loop position k, in order
EventsAt(k) ==
    LET tagged == [n \in 1..Len(events) |-> [ev |-> events[n], pos |-> evpos[n]]]
        mine == SelectSeq(tagged, LAMBDA t : t.pos = k)
    IN [n \in 1..Len(mine) |-> mine[n].ev]

\* The response stream is over: the generator is exhausted, or an exception
\* left it
StreamOver == endpoint = "stream" /\ pc \in {"closed", "crashed"}

AllowedUrls == SelectSeq(urls, is_allowed_url)

\* proc.wait() of the invocation at position i has returned, and
\* run_yt_dlp_stream has run from there to its end: its last yield, or the
\* exception of the embedding
WaitReturned == endpoint = "stream" /\ proc.state = "reaped"

\* The invocation at position i yields nothing more: it has run to its end,
\* an exception has left it in the standard-output loop, or it is in a
\* proc.wait() that does not return
InvocationEnded ==
    /\ endpoint = "stream"
    /\ proc # NoProc
    /\ proc.state = "reaped" \/ pc \in {"crashed", "waiting"}

\* C6: when a URL's extraction has produced an audio file and a step of
\* metadata or cover embedding fails, the failure is not propagated: the done
\* event is emitted and the generator goes on.
C6_EmbeddingFailureRecovered ==
    (/\ WaitReturned
     /\ ProducesAudio(proc.run) /\ Json \in proc.run.files
     /\ proc.run.fail \in {"sidecar", "tags"}
            \/ (proc.run.fail \in {"thumb", "cover"} /\ Jpg \in proc.run.files))
        => /\ pc = "finish"
           /\ events # <<>>
           /\ events[Len(events)] = EvDone(urls[i], Name(File(urls[i], Mp3)))

\* C7: when the stream is over, the events of each allowed URL are progress
\* events, then one completion event (done or error), then one finished
\* marker, and the events of a URL precede those of the URLs after it.
C7_EventSequence ==
    StreamOver
        => /\ \A k \in 1..Len(urls) :
                is_allowed_url(urls[k])
                    => LET mine == EventsAt(k)
                           n == Len(mine)
                       IN /\ n >= 2
                          /\ \A j \in 1..(n - 2) : IsProgress(mine[j])
                          /\ IsDone(mine[n - 1]) \/ IsError(mine[n - 1])
                          /\ mine[n] = EvStatus(urls[k])
           /\ \A m, n \in 1..Len(events) :
                (m < n /\ evpos[m] # 0 /\ evpos[n] # 0) => evpos[m] <= evpos[n]

\* C8: when the stream of a non-empty batch is over, the end-of-stream marker
\* has been emitted, once, as the last event.
C8_EndMarker ==
    (StreamOver /\ urls # <<>>)
        => /\ events # <<>>
           /\ events[Len(events)] = EvEnd
           /\ Cardinality({n \in 1..Len(events) : IsEnd(events[n])}) = 1

\* C9: in the streaming endpoint every URL of the batch that fails
\* is_allowed_url gets exactly one event, its error event, and no directory
\* and no process; the URLs after it are processed as if it were not there:
\* directories and processes are those of the allowed URLs, in order.
C9_RejectedUrlSkipped ==
    StreamOver
        => \A k \in 1..Len(urls) :
                ~is_allowed_url(urls[k])
                    => /\ EventsAt(k) = <<EvError(urls[k], MsgNotAllowed)>>
                       /\ \A n \in 1..Len(spawned) : spawned[n] # k
                       /\ Len(dirs) = Len(spawned)
                       /\ [n \in 1..Len(spawned) |-> urls[spawned[n]]] = AllowedUrls

\* The part of C9 that holds in every state: the same, for the rejected URLs
\* the generator has reached.
C9_WhenReached ==
    endpoint = "stream"
        => /\ \A k \in 1..Len(urls) :
                (k < i /\ ~is_allowed_url(urls[k]))
                    => /\ EventsAt(k) = <<EvError(urls[k], MsgNotAllowed)>>
                       /\ \A n \in 1..Len(spawned) : spawned[n] # k
           /\ Len(dirs) = Len(spawned)
           /\ Len(spawned) <= Len(AllowedUrls)
           /\ \A n \in 1..Len(spawned) : urls[spawned[n]] = AllowedUrls[n]
           /\ pc = "closed" => Len(spawned) = Len(AllowedUrls)

\* C10: in run_yt_dlp_stream a done event is emitted only after exit status 0
\* with an audio file in the directory; when the process has exited with a
\* nonzero status, the one error event, carrying the first ErrLimit characters
\* of the error output, is the last event of the invocation, and neither the
\* scan nor the embedding ran.
C10_CompletionEvent ==
    InvocationEnded
        => LET mine == EventsAt(i)
               o == proc.run
               cut == IF Len(o.err) < ErrLimit THEN Len(o.err) ELSE ErrLimit
           IN /\ (\E n \in 1..Len(mine) : IsDone(mine[n]))
                    => /\ o.rc = 0
                       /\ \E f \in dirs[Len(dirs)] : f.suffix = Mp3
              /\ (proc.state \in {"exited", "reaped"} /\ o.rc # 0)
                    => /\ mine # <<>>
                       /\ mine[Len(mine)] = EvError(urls[i], SubSeq(o.err, 1, cut))
                       /\ Cardinality({n \in 1..Len(mine) : IsError(mine[n])}) = 1
                       /\ \A n \in 1..Len(mine) : ~IsDone(mine[n])
                       /\ ~proc.scanned
                       /\ ~proc.embed

(***************************************************************************)
(* Further properties of run_yt_dlp_stream                                 *)
(***************************************************************************)
\* C11: when the process exits 0 and leaves an audio file and no metadata
\* sidecar, the invoker emits a done event for the URL and no error event.
C11_MissingSidecarTolerated ==
    (/\ WaitReturned
     /\ proc.run.rc = 0
     /\ Mp3 \in proc.run.files
     /\ Json \notin proc.run.files)
        => LET mine == EventsAt(i)
           IN /\ mine # <<>>
              /\ mine[Len(mine)] = EvDone(urls[i], Name(File(urls[i], Mp3)))
              /\ \A n \in 1..Len(mine) : ~IsError(mine[n])

\* The progress events yielded at loop position k, in order
ProgressAt(k) == SelectSeq(EventsAt(k), IsProgress)

\* The lines of the current process's standard output the invoker has read
LinesRead ==
    SubSeq(proc.run.out, 1, Len(proc.run.out) - Len(proc.todo) - Len(proc.pipe))

NonBlank(line) == Strip(line) # <<>>

\* The line is handed to the loop and yields an event
Relayed(line) == ~OverLimit(line) /\ NonBlank(line)

\* C12 as stated: the progress events of a URL correspond one to one, in
\* order, to the lines the process wrote to its standard output, each handed
\* over before the next line is read.
C12_ProgressPerLine ==
    (endpoint = "stream" /\ proc.state # "none")
        => /\ Len(ProgressAt(i)) = Len(LinesRead)
           /\ \A n \in 1..Len(LinesRead) :
                ProgressAt(i)[n] = EvProgress(urls[i], Strip(LinesRead[n]))

\* C12 as amended: the progress events of a URL correspond one to one, in
\* order, to the lines read so far that are not blank and not longer than the
\* reader's limit, each carrying its line stripped of surrounding whitespace;
\* a blank line yields no event, and a line over the limit yields no event
\* and ends the response with the exception it raises.
C12_ProgressPerNonBlankLine ==
    (endpoint = "stream" /\ proc.state # "none")
        => LET read == SelectSeq(LinesRead, Relayed)
           IN /\ ProgressAt(i) = [n \in 1..Len(read) |->
                                    EvProgress(urls[i], Strip(read[n]))]
              /\ (\E n \in 1..Len(LinesRead) : OverLimit(LinesRead[n]))
                    => /\ pc = "crashed"
                       /\ OverLimit(LinesRead[Len(LinesRead)])

\* C12 witness: the first line and a blank line are read and one progress
\* event is out, while the third line is still to be read.
C12_Witness ==
    /\ endpoint = "stream"
    /\ proc.state = "running"
    /\ Len(proc.run.out) = 3
    /\ Len(LinesRead) = 2
    /\ ~NonBlank(LinesRead[2])
    /\ Len(ProgressAt(i)) = 1
    /\ Len(EventsAt(i)) = 1

(***************************************************************************)
(* Request constraints, error messages, the dispatch loop                  *)
(***************************************************************************)
\* C13: for a batch with no URL or with more than 10 URLs, the streaming
\* endpoint starts no external process and creates no directory.
C13_StreamUrlCount ==
    (endpoint = "stream" /\ (urls = <<>> \/ Len(urls) > MaxUrls))
        => /\ dirs = <<>>
           /\ spawned = <<>>

\* C14: in convert, when a URL's process exits with nonzero status, the
\* failure record of that URL carries the error output of the process, cut
\* to ErrLimit characters.
C14_FailureCarriesStderr ==
    endpoint = "convert"
        => \A k \in 1..Len(tool) :
                tool[k].rc # 0
                    => /\ k <= Len(results)
                       /\ IsDict(results[k])
                       /\ results[k].error
                            = SubSeq(tool[k].err, 1,
                                     IF Len(tool[k].err) < ErrLimit
                                     THEN Len(tool[k].err) ELSE ErrLimit)

\* The outcome at position k of `results` is that of the k-th URL
OutcomeOf(k) ==
    /\ IsDict(results[k]) => results[k].url = urls[k]
    /\ IsPath(results[k]) => results[k].path.stem = urls[k]

\* C15: in convert, at every point of the dispatch loop `results` holds
\* exactly one outcome for each URL processed so far, in input order; an
\* outcome is never changed or removed once appended; when aggregation starts
\* there are as many outcomes as input URLs.
C15_ResultsInOrder ==
    /\ [](endpoint = "convert"
            => /\ pc = "dispatch" => Len(results) = i - 1
               /\ \A k \in 1..Len(results) : OutcomeOf(k)
               /\ (pc = "dispatch" /\ i = Len(urls) + 1) => Len(results) = Len(urls)
               /\ (pc = "responded" /\ ValidBatch(urls)) => Len(results) = Len(urls))
    /\ [][/\ Len(results') >= Len(results)
          /\ \A k \in 1..Len(results) : results'[k] = results[k]]_vars

\* C15 witness: two of three URLs processed, two outcomes.
C15_Witness ==
    /\ endpoint = "convert"
    /\ pc = "dispatch"
    /\ Len(urls) = 3 /\ urls[1] # urls[2]
    /\ i = 3
    /\ Len(results) = 2
    /\ results[1].url = urls[1] /\ results[2].url = urls[2]

\* C16: for a valid batch, the dispatch loop of convert runs the invoker to
\* completion once per URL, in input order: one process is started per URL,
\* and embed_metadata runs for each URL whose extraction succeeded.
C16_InvokerRunsOncePerUrl ==
    (ConvertAnswered /\ ValidBatch(urls))
        => /\ spawned = [k \in 1..Len(urls) |-> k]
           /\ \A k \in AudioPositions :
                \E n \in 1..Len(embedded) : embedded[n] = k

\* The files of dir in one category of the scan
AudioIn(dir) == {f \in dir : Lower(f.suffix) = Mp3}
SidecarIn(dir) == {f \in dir : Lower(f.suffix) = Json}
ThumbIn(dir) == {f \in dir : Lower(f.suffix) \in {Jpg, Jpeg, Webp}}

OnePerCategory(dir) ==
    /\ Cardinality(AudioIn(dir)) <= 1
    /\ Cardinality(SidecarIn(dir)) <= 1
    /\ Cardinality(ThumbIn(dir)) <= 1

\* C17: every invocation of run_yt_dlp_stream, from either endpoint and at
\* every position of the batch, is given a directory that is empty when the
\* external process starts, so the scan after it finds at most one audio
\* file, one sidecar and one thumbnail, all produced by that invocation.
C17_EmptyOutputDirectory ==
    /\ [](/\ (endpoint = "stream" /\ proc.state \in {"running", "blocked"})
                => dirs[Len(dirs)] = {}
          /\ WaitReturned
                => /\ dirs[Len(dirs)] = Produced(urls[i], proc.run)
                   /\ OnePerCategory(dirs[Len(dirs)])
          /\ (endpoint = "convert" /\ dirs # <<>>)
                => /\ OnePerCategory(dirs[1])
                   /\ spawned # <<>>
                        => dirs[1] \subseteq Produced(urls[spawned[Len(spawned)]],
                                                      tool[spawned[Len(spawned)]]))
    /\ [][spawned' # spawned
            => IF endpoint = "convert" THEN dirs[1] = {}
               ELSE dirs'[Len(dirs')] = {}]_vars

\* The second URL of a stream, the first one again, has been extracted and
\* scanned: its directory holds its own three files, next to the directory
\* of the first URL.
C17_Witness ==
    /\ WaitReturned /\ proc.scanned
    /\ i = 2 /\ urls[1] = urls[2]
    /\ spawned = <<1, 2>> /\ Len(dirs) = 2
    /\ dirs[1] # {}
    /\ dirs[2] = {File(urls[2], Mp3), File(urls[2], Json), File(urls[2], Jpg)}

\* The outcome of the process started at position p has been produced: its
\* entry of `results`, or its completion event followed by the finished marker
OutcomeProduced(p) ==
    IF endpoint = "convert" THEN Len(results) >= p
    ELSE LET ev == EventsAt(p)
         IN /\ Len(ev) >= 2
            /\ ev[Len(ev)] = EvStatus(urls[p])
            /\ IsDone(ev[Len(ev) - 1]) \/ IsError(ev[Len(ev) - 1])

\* C18: within one request at most one external process runs at a time: a
\* process is started for a later URL only after the process of every earlier
\* URL has exited and its outcome (result entry, or completion event and
\* finished marker) has been produced.
C18_OneProcessAtATime ==
    /\ [](proc # NoProc
            => /\ spawned # <<>>
               /\ spawned[Len(spawned)] = i
               /\ \A n \in 1..(Len(spawned) - 1) :
                    spawned[n] < i /\ OutcomeProduced(spawned[n]))
    /\ [][spawned' # spawned
            => /\ proc = NoProc
               /\ spawned' = Append(spawned, i)
               /\ \A n \in 1..Len(spawned) :
                    spawned[n] < i /\ OutcomeProduced(spawned[n])]_vars

\* The process of the second URL of a stream is running; the first URL's
\* process has exited and its done event and finished marker are out.
C18_Witness ==
    /\ endpoint = "stream" /\ proc # NoProc /\ proc.state = "running"
    /\ spawned = <<1, 2>> /\ i = 2
    /\ Len(events) >= 2
    /\ IsDone(events[Len(events) - 1])
    /\ events[Len(events)] = EvStatus(urls[1])

\* C19: in run_yt_dlp_stream there is no reachable state in which the invoker
\* waits for more standard-output lines, having consumed what the process
\* wrote, while the process is blocked writing to a full standard-error pipe
\* that is read only after the process has exited.
C19_NoPipeDeadlock ==
    ~(/\ endpoint = "stream" /\ pc = "relay"
      /\ proc.state = "blocked"
      /\ proc.pipe = <<>>)

====
